---------------------------- MODULE Spec2Model ----------------------------
(***************************************************************************)
(* Model of the two dashboard scripts of the repository:                   *)
(*   src/election_margins_app.py  synthetic election margins                *)
(*   src/app_challenge3.py        energy / GDP / CO2 merger                 *)
(*                                                                         *)
(* Floating point numbers of the election script are fixed-point integers: *)
(* a margin before rounding is counted in hundredths of a point, a margin  *)
(* after round(x, 1) in tenths of a point.                                 *)
(***************************************************************************)
EXTENDS Integers, Sequences, FiniteSets, TLC

VARIABLES
    pc,             \* position of the running script or function
    rng,            \* state of numpy's global random generator
    cache,          \* st.cache_data entry of generate_sample_data: <<>> or <<df>>
    returned,       \* every value generate_sample_data has returned so far
    last_entry,     \* generator state at the entry of the latest run of the body, -1 before
    entry_changed,  \* two runs of the body were entered with different generator states
    df,             \* election script: the generated data frame
    selected_state, \* election script: the State selectbox
    min_votes,      \* election script: the Min Total Votes slider
    show_republican,
    show_democrat,
    filtered_df,    \* election script: the filtered frame
    error,          \* the exception that ended the script, "" when none
    top_r,
    top_d,
    co2,            \* load_data: the harmonized CO2 table
    energy,         \* load_data: the harmonized energy table
    gdp,            \* load_data: the GDP table fetch_gdp_or_fallback returned
    fetched,        \* load_data: the sources fetched so far
    failed,         \* load_data: the fetch that raised, "" when none
    warning,        \* load_data: st.warning was called
    fallback_ran,   \* load_data: the except branch of fetch_gdp_or_fallback ran
    merged,         \* load_data: energy joined with gdp
    combined,       \* load_data: merged joined with co2, with the continent
    long_energy,    \* load_data: the long format of combined
    result,         \* what load_data returned: <<>> or <<combined, long_energy>>
    country,        \* energy script: the selected country
    year_range,     \* energy script: the selected <<first, last>> year
    energy_long_f,  \* energy script: long_energy of the selection
    mix             \* energy script: the electricity mix shares

electionVars == <<pc, rng, cache, returned, last_entry, entry_changed, df, selected_state, min_votes,
                  show_republican, show_democrat, filtered_df, error, top_r, top_d>>

loadVars == <<co2, energy, gdp, fetched, failed, warning, fallback_ran, merged,
              combined, long_energy, result, country, year_range, energy_long_f, mix>>

vars == <<electionVars, loadVars>>

(***************************************************************************)
(* Bounds of the model.                                                    *)
(***************************************************************************)
\* counties generated per party (the script generates 120 of each)
NumPerParty == 1
\* modulus of the modelled random generator
RngMod == 64
\* longest filtered frame handed to the top-shift tables
MaxShiftRows == 6
\* most rows of a fetched source table
MaxRows == 2

(***************************************************************************)
(* Helpers.                                                                *)
(***************************************************************************)
Min(a, b) == IF a <= b THEN a ELSE b

Max(a, b) == IF a >= b THEN a ELSE b

RECURSIVE SeqsUpTo(_, _)
\* all sequences over S of length at most n
SeqsUpTo(S, n) ==
    IF n = 0 THEN {<<>>}
    ELSE LET shorter == SeqsUpTo(S, n - 1)
         IN  shorter \cup {Append(s, x) : s \in {t \in shorter : Len(t) = n - 1}, x \in S}

(***************************************************************************)
(* generate_sample_data (election_margins_app.py)                          *)
(***************************************************************************)
states == <<"Texas", "California", "Florida", "Pennsylvania",
            "Ohio", "Georgia", "Michigan", "Arizona">>

\* np.clip(a, a_min, a_max)
ClipUpperOnly(a, a_min, a_max) == Min(a, a_max)

Clip(a, a_min, a_max) == Min(Max(a, a_min), a_max)

\* round(x, 1): x in hundredths, the result in tenths, halves to the even tenth
Round1(x) ==
    LET q == x \div 10
        r == x % 10
    IN  IF r < 5 THEN q
        ELSE IF r > 5 THEN q + 1
        ELSE IF q % 2 = 0 THEN q ELSE q + 1

\* One iteration of the first loop. d holds the iteration's five draws:
\* choice (an index into states), uniform (the base, as an offset in hundredths
\* from the low end of the range), normal1, normal2 (hundredths), randint.
RepublicanRecord(i, d) ==
    LET base_margin == 5 * 100 + d.uniform
        margin_2020 == Clip(base_margin + d.normal1, 1 * 100, 95 * 100)
        margin_2024 == Clip(base_margin + d.normal2, 1 * 100, 95 * 100)
    IN  [county |-> i + 1,
         state |-> states[d.choice],
         margin_2020 |-> Round1(margin_2020),
         margin_2024 |-> Round1(margin_2024),
         total_votes |-> d.randint,
         party |-> "Republican"]

\* One iteration of the second loop.
DemocratRecord(i, d) ==
    LET base_margin == (-85) * 100 + d.uniform
        margin_2020 == Clip(base_margin + d.normal1, (-95) * 100, (-1) * 100)
        margin_2024 == Clip(base_margin + d.normal2, (-95) * 100, (-1) * 100)
    IN  [county |-> i + 1,
         state |-> states[d.choice],
         margin_2020 |-> Round1(margin_2020),
         margin_2024 |-> Round1(margin_2024),
         total_votes |-> d.randint,
         party |-> "Democrat"]

\* The body of generate_sample_data after the seed is set: draws[k] are the
\* draws of iteration k (0-based i = k - 1), the first NumPerParty iterations
\* being the Republican loop.
GenerateFrom(draws) ==
    [k \in 1..(2 * NumPerParty) |->
        IF k <= NumPerParty THEN RepublicanRecord(k - 1, draws[k])
        ELSE DemocratRecord(k - 1, draws[k])]

(***************************************************************************)
(* numpy's global generator, as a deterministic state machine.             *)
(***************************************************************************)
\* np.random.seed(s)
SeedState(s) == (s * 7 + 3) % RngMod

\* the generator's step
Advance(r) == (r * 5 + 17) % RngMod

RECURSIVE AdvanceN(_, _)
AdvanceN(r, n) == IF n = 0 THEN r ELSE AdvanceN(Advance(r), n - 1)

\* The five draws of one loop iteration, taken from generator state r in the
\* order the loop body makes them; the generator is left at AdvanceN(r, 5).
IterationDraws(r) ==
    [choice  |-> (AdvanceN(r, 1) % 8) + 1,
     uniform |-> (AdvanceN(r, 2) % 81) * 100,
     normal1 |-> ((AdvanceN(r, 3) % 25) - 12) * 50,
     normal2 |-> ((AdvanceN(r, 4) % 33) - 16) * 50,
     randint |-> 100 + ((AdvanceN(r, 5) * 1249) % 79900)]

\* the draws of all iterations, starting from generator state r
DrawStream(r) ==
    [k \in 1..(2 * NumPerParty) |-> IterationDraws(AdvanceN(r, 5 * (k - 1)))]

\* np.random.seed(42) omitted: the generator is left where it was
SeedSkipped(r) == r

\* line 13: the state of the generator after np.random.seed(42), whatever it was
SeedAtEntry(r) == SeedState(42)

\* generate_sample_data's body, run with the global generator in state r:
\* the frame it returns and the state it leaves the generator in
GenerateSampleData(r) ==
    LET r0 == SeedAtEntry(r)
    IN  [df |-> GenerateFrom(DrawStream(r0)),
         rng |-> AdvanceN(r0, 5 * 2 * NumPerParty)]


(***************************************************************************)
(* The election script, line by line after the data is generated.          *)
(***************************************************************************)
\* the names bound at module level when line 86 runs (lines 1-85)
BoundNames ==
    {"st", "pd", "np", "go", "generate_sample_data", "df", "selected_state",
     "min_votes", "show_republican", "show_democrat", "filtered_df"}

\* evaluating a global name
Lookup(name) == IF name \in BoundNames THEN "bound" ELSE "NameError"

\* lines 82-85: the copy, the state filter and the votes filter
FilterStateAndVotes(frame, st, mv) ==
    LET KeepState(r) == r.state = st
        KeepVotes(r) == r.total_votes >= mv
        byState == IF st # "All" THEN SelectSeq(frame, KeepState) ELSE frame
    IN  SelectSeq(byState, KeepVotes)

\* line 70: ["All"] + sorted(df["state"].unique().tolist()), as a set
StateOptions(frame) == {"All"} \cup {frame[i].state : i \in DOMAIN frame}

\* lines 73-76: st.slider("Min Total Votes", 0, 80000, 0, 5000)
SliderValues == {5000 * k : k \in 0..16}

\* line 208: filtered_df["change"] = margin_2024 - margin_2020 (tenths)
WithChange(frame) ==
    [i \in DOMAIN frame |->
        [county |-> frame[i].county,
         state |-> frame[i].state,
         margin_2020 |-> frame[i].margin_2020,
         margin_2024 |-> frame[i].margin_2024,
         total_votes |-> frame[i].total_votes,
         party |-> frame[i].party,
         change |-> frame[i].margin_2024 - frame[i].margin_2020]]

\* whether row a sorts strictly before row b in the given order of "change"
Before(a, b, order) ==
    CASE order = "descending" -> a.change > b.change
      [] order = "ascending" -> a.change < b.change
      [] order = "descending_last" -> a.change >= b.change

RECURSIVE InsertByChange(_, _, _)
\* x put into the sorted sequence s behind every row that it does not sort
\* strictly before: a stable insertion
InsertByChange(s, x, order) ==
    IF s = <<>> THEN <<x>>
    ELSE IF Before(x, Head(s), order) THEN <<x>> \o s
    ELSE <<Head(s)>> \o InsertByChange(Tail(s), x, order)

RECURSIVE SortByChange(_, _)
\* frame sorted by "change", rows of equal change kept in their original order
SortByChange(frame, order) ==
    IF frame = <<>> THEN <<>>
    ELSE InsertByChange(SortByChange(SubSeq(frame, 1, Len(frame) - 1), order),
                        frame[Len(frame)], order)

\* DataFrame.head(n)
Head_n(s, n) == SubSeq(s, 1, Min(n, Len(s)))

\* the columns shown: [["county", "state", "margin_2020", "margin_2024", "change"]]
ShownColumns(frame) ==
    [i \in DOMAIN frame |->
        [county |-> frame[i].county,
         state |-> frame[i].state,
         margin_2020 |-> frame[i].margin_2020,
         margin_2024 |-> frame[i].margin_2024,
         change |-> frame[i].change]]

\* DataFrame.nlargest(n, "change") with keep="last": of equal rows the later wins
NLargestKeepLast(frame, n) == Head_n(SortByChange(frame, "descending_last"), n)

\* DataFrame.nlargest(n, "change"), keep="first": the first n rows in descending
\* order of change, rows of equal change in their original order
NLargest(frame, n) == Head_n(SortByChange(frame, "descending"), n)

\* DataFrame.nsmallest(n, "change"), keep="first"
NSmallest(frame, n) == Head_n(SortByChange(frame, "ascending"), n)

(***************************************************************************)
(* Inputs of the election specifications.                                  *)
(***************************************************************************)
\* draws that reach both clip bounds of either party, the inside of the range
\* and a rounding tie (5.00 - 3.95 = 1.05, -5.00 + 3.95 = -1.05)
MarginDraws ==
    [choice : {1}, uniform : {0, 8000}, normal1 : {-1095, -395, 395, 1095},
     normal2 : {-1095, -395, 1095}, randint : {100}]
    \cup
    [choice : {8}, uniform : {4000}, normal1 : {0}, normal2 : {0}, randint : {79999}]

\* draws that vary the state and the vote count
FilterDraws ==
    [choice : {1, 8}, uniform : {4000}, normal1 : {0}, normal2 : {50},
     randint : {100, 5000, 79999}]

\* rows of a filtered frame: Republican rows have positive margins, Democrat
\* rows negative ones
ShiftRows ==
    {[state |-> "Texas", margin_2020 |-> 100, margin_2024 |-> 120,
      total_votes |-> 500, party |-> "Republican"],
     [state |-> "Ohio", margin_2020 |-> 300, margin_2024 |-> 300,
      total_votes |-> 900, party |-> "Republican"],
     [state |-> "Ohio", margin_2020 |-> -200, margin_2024 |-> -220,
      total_votes |-> 700, party |-> "Democrat"],
     [state |-> "Texas", margin_2020 |-> -450, margin_2024 |-> -430,
      total_votes |-> 800, party |-> "Democrat"]}

\* row k of a frame carries county k: county names are unique and ascending
Numbered(rows) ==
    [k \in DOMAIN rows |->
        [county |-> k,
         state |-> rows[k].state,
         margin_2020 |-> rows[k].margin_2020,
         margin_2024 |-> rows[k].margin_2024,
         total_votes |-> rows[k].total_votes,
         party |-> rows[k].party]]

(***************************************************************************)
(* Actions of the election script.                                         *)
(***************************************************************************)
LoadIdle ==
    /\ co2 = <<>>
    /\ energy = <<>>
    /\ gdp = <<>>
    /\ fetched = {}
    /\ failed = ""
    /\ warning = FALSE
    /\ fallback_ran = FALSE
    /\ merged = <<>>
    /\ combined = <<>>
    /\ long_energy = <<>>
    /\ result = <<>>
    /\ country = ""
    /\ year_range = <<0, 0>>
    /\ energy_long_f = <<>>
    /\ mix = <<>>

ElectionIdle ==
    /\ LoadIdle
    /\ rng = 0
    /\ cache = <<>>
    /\ returned = {}
    /\ last_entry = -1
    /\ entry_changed = FALSE
    /\ df = <<>>
    /\ selected_state = "All"
    /\ min_votes = 0
    /\ show_republican = TRUE
    /\ show_democrat = TRUE
    /\ filtered_df = <<>>
    /\ error = ""
    /\ top_r = <<>>
    /\ top_d = <<>>

\* generate_sample_data's loops, np.random yielding any of MarginDraws
GenerateAnyDraws ==
    /\ pc = "start"
    /\ \E draws \in [1..(2 * NumPerParty) -> MarginDraws] :
          df' = GenerateFrom(draws)
    /\ pc' = "generated"
    /\ UNCHANGED <<rng, cache, returned, last_entry, entry_changed, selected_state, min_votes, show_republican,
                   show_democrat, filtered_df, error, top_r, top_d>>
    /\ UNCHANGED loadVars

InitGen == pc = "start" /\ ElectionIdle

NextGen == GenerateAnyDraws

SpecGen == InitGen /\ [][NextGen]_vars

\* a call of the cached generate_sample_data: the cached frame when there is
\* one, else the body runs, moves the global generator and fills the cache
CallGenerate ==
    /\ pc = "idle"
    /\ IF cache # <<>>
       THEN /\ returned' = returned \cup {cache[1]}
            /\ UNCHANGED <<rng, cache, last_entry, entry_changed>>
       ELSE LET out == GenerateSampleData(rng)
            IN  /\ returned' = returned \cup {out.df}
                /\ cache' = <<out.df>>
                /\ rng' = out.rng
                /\ last_entry' = rng
                /\ entry_changed' = (entry_changed \/ (last_entry # -1 /\ last_entry # rng))
    /\ UNCHANGED <<pc, df, selected_state, min_votes, show_republican,
                   show_democrat, filtered_df, error, top_r, top_d>>
    /\ UNCHANGED loadVars

\* st.cache_data.clear()
ClearCache ==
    /\ pc = "idle"
    /\ cache # <<>>
    /\ cache' = <<>>
    /\ UNCHANGED <<pc, rng, returned, last_entry, entry_changed, df, selected_state, min_votes, show_republican,
                   show_democrat, filtered_df, error, top_r, top_d>>
    /\ UNCHANGED loadVars

\* other code of the process draws from the global generator
OtherDraw ==
    /\ pc = "idle"
    /\ rng' = Advance(rng)
    /\ UNCHANGED <<pc, cache, returned, last_entry, entry_changed, df, selected_state, min_votes, show_republican,
                   show_democrat, filtered_df, error, top_r, top_d>>
    /\ UNCHANGED loadVars

\* other code of the process seeds the global generator
OtherSeed ==
    /\ pc = "idle"
    /\ \E s \in {0, 7} : rng' = SeedState(s)
    /\ UNCHANGED <<pc, cache, returned, last_entry, entry_changed, df, selected_state, min_votes, show_republican,
                   show_democrat, filtered_df, error, top_r, top_d>>
    /\ UNCHANGED loadVars

InitDet ==
    /\ pc = "idle"
    /\ LoadIdle
    /\ rng \in 0..(RngMod - 1)
    /\ cache = <<>>
    /\ returned = {}
    /\ last_entry = -1
    /\ entry_changed = FALSE
    /\ df = <<>>
    /\ selected_state = "All"
    /\ min_votes = 0
    /\ show_republican = TRUE
    /\ show_democrat = TRUE
    /\ filtered_df = <<>>
    /\ error = ""
    /\ top_r = <<>>
    /\ top_d = <<>>

NextDet == CallGenerate \/ ClearCache \/ OtherDraw \/ OtherSeed

SpecDet == InitDet /\ [][NextDet]_vars

\* line 62: df = generate_sample_data()
LoadFrame ==
    /\ pc = "start"
    /\ \E draws \in [1..(2 * NumPerParty) -> FilterDraws] :
          df' = GenerateFrom(draws)
    /\ pc' = "loaded"
    /\ UNCHANGED <<rng, cache, returned, last_entry, entry_changed, selected_state, min_votes, show_republican,
                   show_democrat, filtered_df, error, top_r, top_d>>
    /\ UNCHANGED loadVars

\* lines 65-79: the sidebar widgets return the user's choices
Sidebar ==
    /\ pc = "loaded"
    /\ selected_state' \in StateOptions(df)
    /\ min_votes' \in SliderValues
    /\ show_republican' \in BOOLEAN
    /\ show_democrat' \in BOOLEAN
    /\ pc' = "sidebar"
    /\ UNCHANGED <<rng, cache, returned, last_entry, entry_changed, df, filtered_df, error, top_r, top_d>>
    /\ UNCHANGED loadVars

\* lines 82-86: lines 82-85 filter; line 86 reads the global party_filter, which
\* no line binds, and the script ends there with a NameError
ApplyFilters ==
    /\ pc = "sidebar"
    /\ Lookup("party_filter") = "NameError"
    /\ filtered_df' = FilterStateAndVotes(df, selected_state, min_votes)
    /\ error' = "NameError"
    /\ pc' = "raised"
    /\ UNCHANGED <<rng, cache, returned, last_entry, entry_changed, df, selected_state, min_votes,
                   show_republican, show_democrat, top_r, top_d>>
    /\ UNCHANGED loadVars

InitFilter == pc = "start" /\ ElectionIdle

NextFilter == LoadFrame \/ Sidebar \/ ApplyFilters

SpecFilter == InitFilter /\ [][NextFilter]_vars

\* line 208
ComputeChange ==
    /\ pc = "filtered"
    /\ filtered_df' = WithChange(filtered_df)
    /\ pc' = "changed"
    /\ UNCHANGED <<rng, cache, returned, last_entry, entry_changed, df, selected_state, min_votes,
                   show_republican, show_democrat, error, top_r, top_d>>
    /\ UNCHANGED loadVars

\* line 213
TopRepublicanShift ==
    /\ pc = "changed"
    /\ top_r' = ShownColumns(NLargest(filtered_df, 5))
    /\ pc' = "top_r"
    /\ UNCHANGED <<rng, cache, returned, last_entry, entry_changed, df, selected_state, min_votes,
                   show_republican, show_democrat, filtered_df, error, top_d>>
    /\ UNCHANGED loadVars

\* line 218
TopDemocratShift ==
    /\ pc = "top_r"
    /\ top_d' = ShownColumns(NSmallest(filtered_df, 5))
    /\ pc' = "top_d"
    /\ UNCHANGED <<rng, cache, returned, last_entry, entry_changed, df, selected_state, min_votes,
                   show_republican, show_democrat, filtered_df, error, top_r>>
    /\ UNCHANGED loadVars

\* the analysis tables of lines 207-219, entered with any filtered frame
InitShift ==
    /\ pc = "filtered"
    /\ LoadIdle
    /\ rng = 0
    /\ cache = <<>>
    /\ returned = {}
    /\ last_entry = -1
    /\ entry_changed = FALSE
    /\ df = <<>>
    /\ selected_state = "All"
    /\ min_votes = 0
    /\ show_republican = TRUE
    /\ show_democrat = TRUE
    /\ filtered_df \in {Numbered(rows) : rows \in SeqsUpTo(ShiftRows, MaxShiftRows)}
    /\ error = ""
    /\ top_r = <<>>
    /\ top_d = <<>>

NextShift == ComputeChange \/ TopRepublicanShift \/ TopDemocratShift

SpecShift == InitShift /\ [][NextShift]_vars

(***************************************************************************)
(* load_data (app_challenge3.py).                                          *)
(*                                                                         *)
(* A table is the sequence of its rows. A float is a fraction <<n, d>> in  *)
(* lowest terms with d > 0; <<1, 0>> and <<-1, 0>> are the infinities and  *)
(* <<0, 0>> is NaN, pandas' null. A null string is NullCode.               *)
(***************************************************************************)
NaN == <<0, 0>>

NullCode == "<NA>"

Num(v) == <<v, 1>>

Abs(x) == IF x < 0 THEN -x ELSE x

RECURSIVE GCD(_, _)
GCD(a, b) == IF b = 0 THEN a ELSE GCD(b, a % b)

\* the fraction n / d, d # 0, in lowest terms
Frac(n, d) ==
    LET g == GCD(Abs(n), Abs(d))
        sgn == IF d < 0 THEN -1 ELSE 1
    IN  <<(sgn * n) \div g, (sgn * d) \div g>>

IsFinite(x) == x[2] # 0

\* a / b in floating point: NaN when either is NaN or both are zero, an
\* infinity when only b is zero
FDiv(a, b) ==
    IF a = NaN \/ b = NaN THEN NaN
    ELSE IF ~IsFinite(a) THEN (IF IsFinite(b) THEN a ELSE NaN)
    ELSE IF ~IsFinite(b) THEN Num(0)
    ELSE IF b[1] = 0 THEN (IF a[1] = 0 THEN NaN
                           ELSE IF a[1] > 0 THEN <<1, 0>> ELSE <<-1, 0>>)
    ELSE Frac(a[1] * b[2], a[2] * b[1])

\* a + b of two finite floats
FAdd(a, b) == Frac(a[1] * b[2] + b[1] * a[2], a[2] * b[2])

RECURSIVE FSum(_)
\* Series.sum(): the sum of the values that are not NaN, 0 when there are none
FSum(values) ==
    IF values = <<>> THEN Num(0)
    ELSE IF Head(values) = NaN THEN FSum(Tail(values))
    ELSE FAdd(Head(values), FSum(Tail(values)))

\* value_vars of the melt, in its order (lines 125-129)
SourceOrder ==
    <<"biofuel", "coal", "gas", "hydro", "nuclear", "oil",
      "other_renewable", "solar", "wind">>

Sources == {SourceOrder[k] : k \in DOMAIN SourceOrder}

\* lines 41: co2[co2["year"] >= 1990]
HarmonizeCo2(raw) ==
    LET Recent(r) == r.year >= 1990
    IN  SelectSeq(raw, Recent)

\* line 60 without the dropna
HarmonizeEnergyNoDropna(raw) ==
    LET Recent(r) == r.year >= 1990
    IN  SelectSeq(raw, Recent)

\* line 60: energy.query("year >= 1990").dropna(subset=["iso_code"])
HarmonizeEnergy(raw) ==
    LET Recent(r) == r.year >= 1990
        HasCode(r) == r.iso_code # NullCode
    IN  SelectSeq(SelectSeq(raw, Recent), HasCode)

\* lines 67-74: the World Bank answers the query with the rows of its database
\* whose year lies in time = range(1990, 2024)
WorldBankQuery(db) ==
    LET InRange(r) == r.year \in 1990..2023
    IN  SelectSeq(db, InRange)

\* lines 75-81: rename, dropna(subset=["gdp_percap"]), the three columns
PrimaryGdp(response) ==
    LET HasValue(r) == r.gdp_percap # NaN
        kept == SelectSeq(response, HasValue)
    IN  [k \in DOMAIN kept |->
            [iso_code |-> kept[k].iso_code,
             year |-> kept[k].year,
             gdp_percap |-> kept[k].gdp_percap]]

\* lines 87-89 without the dropna
FallbackNoDropna(energy_df) ==
    [k \in DOMAIN energy_df |->
        [iso_code |-> energy_df[k].iso_code,
         year |-> energy_df[k].year,
         gdp_percap |-> FDiv(energy_df[k].gdp, energy_df[k].population)]]

\* lines 87-89: the rows of energy with iso_code, year, gdp and population all
\* present, gdp_percap = gdp / population
FallbackGdp(energy_df) ==
    LET Complete(r) == r.iso_code # NullCode /\ r.gdp # NaN /\ r.population # NaN
        fb == SelectSeq(energy_df, Complete)
    IN  [k \in DOMAIN fb |->
            [iso_code |-> fb[k].iso_code,
             year |-> fb[k].year,
             gdp_percap |-> FDiv(fb[k].gdp, fb[k].population)]]

\* fetch_gdp_or_fallback with no except clause: the exception leaves load_data
FetchGdpNoFallback(energy_df, answer) ==
    IF answer.raises
    THEN [raised |-> TRUE, warned |-> FALSE, fallback |-> FALSE, gdp |-> <<>>]
    ELSE [raised |-> FALSE, warned |-> FALSE, fallback |-> FALSE,
          gdp |-> PrimaryGdp(WorldBankQuery(answer.db))]

\* lines 65-89: fetch_gdp_or_fallback. answer is what the World Bank does with
\* the request: it raises, or it answers from its database.
FetchGdpOrFallback(energy_df, answer) ==
    IF answer.raises
    THEN [raised |-> FALSE, warned |-> TRUE, fallback |-> TRUE,
          gdp |-> FallbackGdp(energy_df)]
    ELSE [raised |-> FALSE, warned |-> FALSE, fallback |-> FALSE,
          gdp |-> PrimaryGdp(WorldBankQuery(answer.db))]

\* the key columns of both merges: on=["iso_code", "year"]
SameKey(a, b) == a.iso_code = b.iso_code /\ a.year = b.year

RECURSIVE Concat(_)
\* the concatenation of a sequence of sequences
Concat(ss) == IF ss = <<>> THEN <<>> ELSE Head(ss) \o Concat(Tail(ss))

\* a row of energy[[...]] (lines 95-99) joined with a row of gdp
EnergyGdpRow(e, g_percap) ==
    [iso_code |-> e.iso_code,
     country |-> e.country,
     year |-> e.year,
     electricity_generation |-> e.electricity_generation,
     src |-> e.src,
     gdp_percap |-> g_percap]

\* pd.merge(energy, gdp, how="left"): a row of energy without a match is kept
\* with a null gdp_percap
LeftJoinGdp(energy_df, gdp_df) ==
    Concat([i \in DOMAIN energy_df |->
        LET Match(g) == SameKey(energy_df[i], g)
            hits == SelectSeq(gdp_df, Match)
        IN  IF hits = <<>> THEN <<EnergyGdpRow(energy_df[i], NaN)>>
            ELSE [j \in DOMAIN hits |-> EnergyGdpRow(energy_df[i], hits[j].gdp_percap)]])

\* lines 94-103: pd.merge(energy[[...]], gdp[[...]], on=[iso_code, year],
\* how="inner"): every pair of rows with equal keys, in the order of the left
\* table; null keys match null keys
InnerJoinGdp(energy_df, gdp_df) ==
    Concat([i \in DOMAIN energy_df |->
        LET Match(g) == SameKey(energy_df[i], g)
            hits == SelectSeq(gdp_df, Match)
        IN  [j \in DOMAIN hits |-> EnergyGdpRow(energy_df[i], hits[j].gdp_percap)]])

\* a row of merged joined with a row of co2
MergedCo2Row(m, c) ==
    [iso_code |-> m.iso_code,
     country |-> m.country,
     year |-> m.year,
     electricity_generation |-> m.electricity_generation,
     src |-> m.src,
     gdp_percap |-> m.gdp_percap,
     co2_per_capita |-> c.co2_per_capita]

\* pd.merge(merged, co2, on=["iso_code"]): the year left out of the key
JoinCo2OnCodeOnly(merged_df, co2_df) ==
    Concat([i \in DOMAIN merged_df |->
        LET Match(c) == merged_df[i].iso_code = c.iso_code
            hits == SelectSeq(co2_df, Match)
        IN  [j \in DOMAIN hits |-> MergedCo2Row(merged_df[i], hits[j])]])

\* lines 105-110: pd.merge(merged, co2[[...]], on=[iso_code, year], how="inner")
InnerJoinCo2(merged_df, co2_df) ==
    Concat([i \in DOMAIN merged_df |->
        LET Match(c) == SameKey(merged_df[i], c)
            hits == SelectSeq(co2_df, Match)
        IN  [j \in DOMAIN hits |-> MergedCo2Row(merged_df[i], hits[j])]])

\* coco.convert(names, to="continent", not_found=None)
Continent(name) ==
    CASE name = "Austria" -> "Europe"
      [] name = "Brazil" -> "America"
      [] OTHER -> NullCode

\* lines 113-115: combined["continent"] = ...
WithContinent(table) ==
    [k \in DOMAIN table |->
        [iso_code |-> table[k].iso_code,
         country |-> table[k].country,
         year |-> table[k].year,
         electricity_generation |-> table[k].electricity_generation,
         src |-> table[k].src,
         gdp_percap |-> table[k].gdp_percap,
         co2_per_capita |-> table[k].co2_per_capita,
         continent |-> Continent(table[k].country)]]

\* lines 118-133: melt to one row per (row of combined, source), source by
\* source, then dropna(subset=["value"])
Melt(table) ==
    LET HasValue(r) == r.value # NaN
        all == Concat([s \in DOMAIN SourceOrder |->
                  [k \in DOMAIN table |->
                      [iso_code |-> table[k].iso_code,
                       country |-> table[k].country,
                       year |-> table[k].year,
                       gdp_percap |-> table[k].gdp_percap,
                       co2_per_capita |-> table[k].co2_per_capita,
                       continent |-> table[k].continent,
                       electricity_generation |-> table[k].electricity_generation,
                       source |-> SourceOrder[s],
                       value |-> table[k].src[SourceOrder[s]]]]])
    IN  SelectSeq(all, HasValue)

(***************************************************************************)
(* The electricity mix of the energy script (lines 155-179).               *)
(***************************************************************************)
\* lines 156-159: the rows of the selected country within the year range
SelectLong(long, c, range) ==
    LET Chosen(r) == r.country = c /\ range[1] <= r.year /\ r.year <= range[2]
    IN  SelectSeq(long, Chosen)

YearsOf(table) == {table[k].year : k \in DOMAIN table}

RECURSIVE Ascending(_)
\* the members of a set of numbers in ascending order
Ascending(S) ==
    IF S = {} THEN <<>>
    ELSE LET least == CHOOSE x \in S : \A y \in S : x <= y
         IN  <<least>> \o Ascending(S \ {least})

\* pivot_table(index="year", columns="source", values="value", aggfunc="sum"):
\* the cell of a year and a source is the sum of the values of their rows, and
\* null when they have no row
Cell(long, y, s) ==
    LET Here(r) == r.year = y /\ r.source = s
        rows == SelectSeq(long, Here)
    IN  IF rows = <<>> THEN NaN
        ELSE FSum([k \in DOMAIN rows |-> rows[k].value])

\* the pivoted row of year y, one cell per source
PivotRow(long, y) == [k \in DOMAIN SourceOrder |-> Cell(long, y, SourceOrder[k])]

\* r.count() as the divisor: the number of non-null cells of the row
RowCount(r) == Num(Cardinality({k \in DOMAIN r : r[k] # NaN}))

\* line 175: r.sum(), the divisor of the row's shares
RowSum(r) == FSum(r)

\* lines 172-179: pivot, r / r.sum() per row, melt (source by source, the years
\* ascending), dropna
Mix(long) ==
    LET years == Ascending(YearsOf(long))
        HasShare(r) == r.share # NaN
        all == Concat([s \in DOMAIN SourceOrder |->
                  [k \in DOMAIN years |->
                      LET r == PivotRow(long, years[k])
                      IN  [year |-> years[k],
                           source |-> SourceOrder[s],
                           share |-> FDiv(r[s], RowSum(r))]]])
    IN  SelectSeq(all, HasShare)

(***************************************************************************)
(* Inputs of load_data: what the three remote sources may hold.            *)
(***************************************************************************)
\* the source columns of an energy row: coal, gas, the seven others null
Src(coal, gas) ==
    [s \in Sources |-> IF s = "coal" THEN coal ELSE IF s = "gas" THEN gas ELSE NaN]

Co2Rows ==
    {[iso_code |-> "AUT", country |-> "Austria", year |-> 1990, co2_per_capita |-> Num(3)],
     [iso_code |-> "AUT", country |-> "Austria", year |-> 2000, co2_per_capita |-> Num(7)],
     [iso_code |-> NullCode, country |-> "World", year |-> 1990, co2_per_capita |-> Num(4)],
     [iso_code |-> "BRA", country |-> "Brazil", year |-> 1989, co2_per_capita |-> Num(5)]}

EnergyRows ==
    {[iso_code |-> "AUT", country |-> "Austria", year |-> 1990,
      electricity_generation |-> Num(4), gdp |-> Num(6), population |-> Num(4),
      src |-> Src(Num(1), Num(3))],
     [iso_code |-> "AUT", country |-> "Austria", year |-> 2000,
      electricity_generation |-> Num(0), gdp |-> NaN, population |-> Num(2),
      src |-> Src(Num(0), Num(0))],
     [iso_code |-> NullCode, country |-> "World", year |-> 1990,
      electricity_generation |-> Num(9), gdp |-> Num(5), population |-> Num(1),
      src |-> Src(Num(2), NaN)],
     [iso_code |-> "BRA", country |-> "Brazil", year |-> 1989,
      electricity_generation |-> Num(1), gdp |-> Num(3), population |-> Num(1),
      src |-> Src(NaN, Num(1))],
     [iso_code |-> "BRA", country |-> "Brazil", year |-> 1990,
      electricity_generation |-> NaN, gdp |-> Num(5), population |-> Num(0),
      src |-> Src(NaN, NaN)]}

WorldBankRows ==
    {[iso_code |-> "AUT", year |-> 1990, gdp_percap |-> Num(2)],
     [iso_code |-> "AUT", year |-> 2000, gdp_percap |-> Num(4)],
     [iso_code |-> "BRA", year |-> 1990, gdp_percap |-> NaN],
     [iso_code |-> "BRA", year |-> 1989, gdp_percap |-> Num(8)]}

\* what the World Bank does with the request: it raises, or it answers from a
\* database of at most MaxRows rows
WorldBankAnswers ==
    {[raises |-> TRUE, db |-> <<>>]}
    \cup {[raises |-> FALSE, db |-> d] : d \in SeqsUpTo(WorldBankRows, MaxRows)}

(***************************************************************************)
(* Actions of the energy script.                                           *)
(***************************************************************************)
electionData == <<rng, cache, returned, last_entry, entry_changed, df, selected_state,
                  min_votes, show_republican, show_democrat, filtered_df, error,
                  top_r, top_d>>

\* lines 23-41: the CO2 fetch, which may raise, and its harmonization
FetchCo2 ==
    /\ pc = "load"
    /\ \/ /\ failed' = "co2"
          /\ pc' = "fatal"
          /\ UNCHANGED <<co2, fetched>>
       \/ /\ \E raw \in SeqsUpTo(Co2Rows, MaxRows) : co2' = HarmonizeCo2(raw)
          /\ fetched' = fetched \cup {"co2"}
          /\ pc' = "co2"
          /\ UNCHANGED failed
    /\ UNCHANGED <<energy, gdp, warning, fallback_ran, merged, combined, long_energy,
                   result, country, year_range, energy_long_f, mix>>
    /\ UNCHANGED electionData

\* lines 44-60: the energy fetch, which may raise, and its harmonization
FetchEnergy ==
    /\ pc = "co2"
    /\ \/ /\ failed' = "energy"
          /\ pc' = "fatal"
          /\ UNCHANGED <<energy, fetched>>
       \/ /\ \E raw \in SeqsUpTo(EnergyRows, MaxRows) : energy' = HarmonizeEnergy(raw)
          /\ fetched' = fetched \cup {"energy"}
          /\ pc' = "energy"
          /\ UNCHANGED failed
    /\ UNCHANGED <<co2, gdp, warning, fallback_ran, merged, combined, long_energy,
                   result, country, year_range, energy_long_f, mix>>
    /\ UNCHANGED electionData

\* line 91: gdp = fetch_gdp_or_fallback(energy)
FetchGdp ==
    /\ pc = "energy"
    /\ \E answer \in WorldBankAnswers :
          LET out == FetchGdpOrFallback(energy, answer)
          IN  /\ failed' = IF answer.raises THEN "gdp" ELSE failed
              /\ warning' = out.warned
              /\ fallback_ran' = out.fallback
              /\ IF out.raised
                 THEN /\ pc' = "fatal"
                      /\ UNCHANGED <<gdp, fetched>>
                 ELSE /\ gdp' = out.gdp
                      /\ fetched' = fetched \cup {"gdp"}
                      /\ pc' = "gdp"
    /\ UNCHANGED <<co2, energy, merged, combined, long_energy,
                   result, country, year_range, energy_long_f, mix>>
    /\ UNCHANGED electionData

\* lines 94-115: the two merges and the continent column
MergeTables ==
    /\ pc = "gdp"
    /\ merged' = InnerJoinGdp(energy, gdp)
    /\ combined' = WithContinent(InnerJoinCo2(merged', co2))
    /\ pc' = "combined"
    /\ UNCHANGED <<co2, energy, gdp, fetched, failed, warning, fallback_ran,
                   long_energy, result, country, year_range, energy_long_f, mix>>
    /\ UNCHANGED electionData

\* lines 118-135: the long format, and the return of both tables
MeltAndReturn ==
    /\ pc = "combined"
    /\ long_energy' = Melt(combined)
    /\ result' = <<combined, long_energy'>>
    /\ pc' = "returned"
    /\ UNCHANGED <<co2, energy, gdp, fetched, failed, warning, fallback_ran,
                   merged, combined, country, year_range, energy_long_f, mix>>
    /\ UNCHANGED electionData

\* lines 144-152 on an empty table: no country to select, and int() of the
\* null minimum year raises
EmptyTable ==
    /\ pc = "returned"
    /\ combined = <<>>
    /\ pc' = "script_error"
    /\ UNCHANGED loadVars
    /\ UNCHANGED electionData

\* lines 143-159: the user's country and year range, and the filtered tables
SelectFilters ==
    /\ pc = "returned"
    /\ combined # <<>>
    /\ country' \in {combined[k].country : k \in DOMAIN combined}
    /\ \E lo \in YearsOf(combined), hi \in YearsOf(combined) :
          /\ lo <= hi
          /\ year_range' = <<lo, hi>>
    /\ energy_long_f' = SelectLong(long_energy, country', year_range')
    /\ pc' = "selected"
    /\ UNCHANGED <<co2, energy, gdp, fetched, failed, warning, fallback_ran,
                   merged, combined, long_energy, result, mix>>
    /\ UNCHANGED electionData

\* lines 172-179: the shares of the electricity mix, of a selection with rows
ComputeMix ==
    /\ pc = "selected"
    /\ energy_long_f # <<>>
    /\ mix' = Mix(energy_long_f)
    /\ pc' = "mix"
    /\ UNCHANGED <<co2, energy, gdp, fetched, failed, warning, fallback_ran,
                   merged, combined, long_energy, result, country, year_range,
                   energy_long_f>>
    /\ UNCHANGED electionData

Init ==
    /\ pc = "load"
    /\ LoadIdle
    /\ rng = 0
    /\ cache = <<>>
    /\ returned = {}
    /\ last_entry = -1
    /\ entry_changed = FALSE
    /\ df = <<>>
    /\ selected_state = "All"
    /\ min_votes = 0
    /\ show_republican = TRUE
    /\ show_democrat = TRUE
    /\ filtered_df = <<>>
    /\ error = ""
    /\ top_r = <<>>
    /\ top_d = <<>>

Next ==
    \/ FetchCo2
    \/ FetchEnergy
    \/ FetchGdp
    \/ MergeTables
    \/ MeltAndReturn
    \/ EmptyTable
    \/ SelectFilters
    \/ ComputeMix

Spec == Init /\ [][Next]_vars

(***************************************************************************)
(* Claims about the election script.                                       *)
(***************************************************************************)
RepublicanRows == {k \in DOMAIN df : df[k].party = "Republican"}

DemocratRows == {k \in DOMAIN df : df[k].party = "Democrat"}

\* C1: every generated record has both margins on its party's side of zero:
\* the NumPerParty Republican records have margin_2020 and margin_2024 in
\* [1, 95] (10..950 tenths), the NumPerParty Democrat records in [-95, -1],
\* after rounding to one decimal, whatever np.random draws.
C1_MarginsKeepPartySign ==
    pc = "generated" =>
        /\ Len(df) = 2 * NumPerParty
        /\ RepublicanRows = 1..NumPerParty
        /\ DemocratRows = (NumPerParty + 1)..(2 * NumPerParty)
        /\ \A k \in RepublicanRows :
              /\ 10 <= df[k].margin_2020 /\ df[k].margin_2020 <= 950
              /\ 10 <= df[k].margin_2024 /\ df[k].margin_2024 <= 950
        /\ \A k \in DemocratRows :
              /\ -950 <= df[k].margin_2020 /\ df[k].margin_2020 <= -10
              /\ -950 <= df[k].margin_2024 /\ df[k].margin_2024 <= -10

\* a frame where the noise pushed a Republican margin below 1 and a Democrat
\* margin above -1, and both were clipped back
C1_Witness ==
    /\ pc = "generated"
    /\ \E k \in RepublicanRows : df[k].margin_2020 = 10
    /\ \E k \in DemocratRows : df[k].margin_2024 = -10

FilterStepRan == pc \notin {"start", "loaded", "sidebar"}

\* C3: the filter step with state "All", threshold 0 and both parties selected
\* returns exactly the input records; with a threshold above every record's
\* total_votes it returns no record; it raises in neither case.
C3_FilterIdentityAndEmpty ==
    FilterStepRan =>
        /\ (selected_state = "All" /\ min_votes = 0 /\ show_republican /\ show_democrat)
              => (error = "" /\ filtered_df = df)
        /\ (\A k \in DOMAIN df : df[k].total_votes < min_votes)
              => (error = "" /\ filtered_df = <<>>)

\* where row `county` stands in the frame
PositionOf(frame, county) == CHOOSE i \in DOMAIN frame : frame[i].county = county

\* top holds the min(n, len) rows of frame that are most extreme in `change`
\* (sign 1: largest, sign -1: smallest), most extreme first, rows of equal
\* change in their original order, and a row left out never beats a row kept
IsTopShift(top, frame, n, sign) ==
    LET Beats(a, b) ==
            \/ sign * a.change > sign * b.change
            \/ a.change = b.change /\ a.county < b.county
        kept == {top[k].county : k \in DOMAIN top}
    IN  /\ Len(top) = Min(n, Len(frame))
        /\ \A k \in DOMAIN top :
              /\ \E i \in DOMAIN frame : frame[i].county = top[k].county
              /\ LET row == frame[PositionOf(frame, top[k].county)]
                 IN  /\ top[k].change = row.margin_2024 - row.margin_2020
                     /\ top[k].margin_2020 = row.margin_2020
                     /\ top[k].margin_2024 = row.margin_2024
                     /\ top[k].state = row.state
        /\ \A k, l \in DOMAIN top : k < l => Beats(top[k], top[l])
        /\ \A k \in DOMAIN top : \A i \in DOMAIN frame :
              frame[i].county \notin kept =>
                  Beats(top[k], [change |-> frame[i].margin_2024 - frame[i].margin_2020,
                                 county |-> frame[i].county])

C7_SameOutputEveryCall == Cardinality(returned) <= 1

\* the body ran at least twice, entered with different generator states
C7_Witness == entry_changed /\ returned # {}

(***************************************************************************)
(* Claims about load_data and the electricity mix.                         *)
(***************************************************************************)
AfterMerge == pc \in {"combined", "returned", "script_error", "selected", "mix"}

AfterGdp == pc = "gdp" \/ AfterMerge

AfterReturn == pc \in {"returned", "script_error", "selected", "mix"}

RowsOf(table) == {table[k] : k \in DOMAIN table}

KeysOf(table) == {<<table[k].iso_code, table[k].year>> : k \in DOMAIN table}

\* C2: every row of the merged table has its (iso_code, year) in all three
\* harmonized tables, and its metrics are those of source rows with that key:
\* the join adds no key and fills in no null.
C2_InnerJoinCompleteness ==
    AfterMerge =>
        \A k \in DOMAIN combined :
            \E e \in RowsOf(energy), g \in RowsOf(gdp), c \in RowsOf(co2) :
                /\ SameKey(e, combined[k])
                /\ SameKey(g, combined[k])
                /\ SameKey(c, combined[k])
                /\ combined[k].country = e.country
                /\ combined[k].electricity_generation = e.electricity_generation
                /\ combined[k].src = e.src
                /\ combined[k].gdp_percap = g.gdp_percap
                /\ combined[k].co2_per_capita = c.co2_per_capita

\* a key of the energy and GDP tables that the CO2 table lacks is left out of a
\* merged table that has other rows
C2_Witness ==
    /\ AfterMerge
    /\ combined # <<>>
    /\ \E key \in (KeysOf(energy) \cap KeysOf(gdp)) \ KeysOf(co2) :
          key \notin KeysOf(combined)

\* q is a / b: by cross multiplication when b is not zero, else an infinity
\* of a's sign, or NaN for 0 / 0
IsRatio(q, a, b) ==
    IF b[1] # 0 THEN IsFinite(q) /\ q[1] * b[1] * a[2] = a[1] * b[2] * q[2]
    ELSE IF a[1] = 0 THEN q = NaN
    ELSE q[2] = 0 /\ q[1] * a[1] > 0

GdpColumns == {"iso_code", "year", "gdp_percap"}

\* C5 as stated: the fallback runs exactly when the primary path raises, and
\* its output has one row for every row of the energy table, with
\* gdp_percap = gdp / population, in the primary path's schema.
C5_FallbackRowPerEnergyRow ==
    AfterGdp =>
        /\ fallback_ran <=> failed = "gdp"
        /\ fallback_ran =>
              /\ Len(gdp) = Len(energy)
              /\ \A k \in DOMAIN gdp :
                    /\ DOMAIN gdp[k] = GdpColumns
                    /\ SameKey(gdp[k], energy[k])
                    /\ energy[k].gdp # NaN /\ energy[k].population # NaN
                    /\ IsRatio(gdp[k].gdp_percap, energy[k].gdp, energy[k].population)

\* the rows of the energy table with both gdp and population present
CompleteRows == {k \in DOMAIN energy : energy[k].gdp # NaN /\ energy[k].population # NaN}

\* C5 amended: the fallback runs exactly when the primary path raises, and its
\* output has, in order, one row for every row of the energy table whose gdp
\* and population are both present (the others are dropped), with
\* gdp_percap = gdp / population; both paths return {iso_code, year, gdp_percap}.
C5_FallbackRowPerCompleteRow ==
    AfterGdp =>
        /\ fallback_ran <=> failed = "gdp"
        /\ \A k \in DOMAIN gdp : DOMAIN gdp[k] = GdpColumns
        /\ fallback_ran =>
              LET idx == Ascending(CompleteRows)
              IN  /\ Len(gdp) = Len(idx)
                  /\ \A j \in DOMAIN gdp :
                        /\ SameKey(gdp[j], energy[idx[j]])
                        /\ IsRatio(gdp[j].gdp_percap, energy[idx[j]].gdp,
                                   energy[idx[j]].population)

\* the fallback ran on an energy table with a complete and an incomplete row
C5_Witness ==
    /\ AfterGdp
    /\ fallback_ran
    /\ gdp # <<>>
    /\ Len(gdp) < Len(energy)

\* the values of the selection's rows of year y
GroupValues(y) ==
    LET InYear(r) == r.year = y
        rows == SelectSeq(energy_long_f, InYear)
    IN  [k \in DOMAIN rows |-> rows[k].value]

\* the shares the mix holds for year y
GroupShares(y) ==
    LET InYear(r) == r.year = y
        rows == SelectSeq(mix, InYear)
    IN  [k \in DOMAIN rows |-> rows[k].share]

AllFinite(values) == \A k \in DOMAIN values : IsFinite(values[k])

\* C6 as stated: the shares of every (country, year) group with at least one
\* non-null source value sum to 1, groups of zeros included.
C6_SharesSumToOne ==
    pc = "mix" =>
        \A y \in YearsOf(energy_long_f) :
            AllFinite(GroupShares(y)) /\ FSum(GroupShares(y)) = Num(1)

\* C6 amended: the shares of every group whose source values have a non-zero
\* sum add up to 1; a group whose values are all zero gets null shares, which
\* are dropped, so it has no share at all.
C6_SharesSumToOneUnlessZero ==
    pc = "mix" =>
        \A y \in YearsOf(energy_long_f) :
            /\ FSum(GroupValues(y)) # Num(0) =>
                  AllFinite(GroupShares(y)) /\ FSum(GroupShares(y)) = Num(1)
            /\ (\A k \in DOMAIN GroupValues(y) : GroupValues(y)[k] = Num(0)) =>
                  GroupShares(y) = <<>>

\* a selection with a group of several positive values and a group of zeros
C6_Witness ==
    /\ pc = "mix"
    /\ \E y \in YearsOf(energy_long_f) :
          FSum(GroupValues(y)) # Num(0) /\ Len(GroupShares(y)) >= 2
    /\ \E y \in YearsOf(energy_long_f) : FSum(GroupValues(y)) = Num(0)

UniqueKeys(table) ==
    \A i, j \in DOMAIN table : SameKey(table[i], table[j]) => i = j

\* C8 as stated: no two rows of the merged table share (iso_code, year),
\* whatever the sources hold.
C8_MergedKeysUnique == AfterMerge => UniqueKeys(combined)

\* C8 amended: when each of the three harmonized tables has at most one row
\* per (iso_code, year), so has the merged table.
C8_MergedKeysUniqueIfSourcesAre ==
    (AfterMerge /\ UniqueKeys(energy) /\ UniqueKeys(gdp) /\ UniqueKeys(co2))
        => UniqueKeys(combined)

\* sources without repeated keys merged into a table of several rows
C8_Witness ==
    /\ AfterMerge
    /\ UniqueKeys(energy) /\ UniqueKeys(gdp) /\ UniqueKeys(co2)
    /\ Len(combined) >= 2

\* C9: no merge output exists before all three fetches are done; a failed CO2
\* or energy fetch ends load_data in a fatal error with nothing returned, and
\* nothing else does; a failed GDP primary fetch gives a warning and the
\* fallback, never the fatal error; what load_data returns is the complete
\* pair (combined, long_energy).
C9_FetchesThenMergeOrFatal ==
    /\ (AfterMerge \/ merged # <<>> \/ combined # <<>>)
          => fetched = {"co2", "energy", "gdp"}
    /\ failed \in {"co2", "energy"} => pc = "fatal"
    /\ pc = "fatal" =>
          /\ failed \in {"co2", "energy"}
          /\ result = <<>> /\ merged = <<>> /\ combined = <<>> /\ long_energy = <<>>
    /\ failed = "gdp" => (warning /\ fallback_ran /\ pc # "fatal")
    /\ warning => failed = "gdp"
    /\ result # <<>> => AfterReturn
    /\ AfterReturn => result = <<combined, long_energy>>

\* load_data returned a table with rows after the GDP primary fetch failed
C9_Witness ==
    /\ pc = "returned"
    /\ failed = "gdp"
    /\ warning
    /\ result # <<>>
    /\ combined # <<>>

\* C10 as stated: each harmonized table (CO2, energy, GDP) holds only rows
\* with year >= 1990 and an iso_code.
C10_HarmonizedRecentWithCode ==
    /\ \A r \in RowsOf(co2) : r.year >= 1990 /\ r.iso_code # NullCode
    /\ \A r \in RowsOf(energy) : r.year >= 1990 /\ r.iso_code # NullCode
    /\ \A r \in RowsOf(gdp) : r.year >= 1990 /\ r.iso_code # NullCode

\* C10 amended: each harmonized table holds only rows with year >= 1990; rows
\* without iso_code are dropped from the energy table only, and it is the inner
\* join with energy that keeps them out of the merged table.
C10_RecentAndEnergyWithCode ==
    /\ \A r \in RowsOf(co2) : r.year >= 1990
    /\ \A r \in RowsOf(energy) : r.year >= 1990 /\ r.iso_code # NullCode
    /\ \A r \in RowsOf(gdp) : r.year >= 1990
    /\ \A r \in RowsOf(combined) : r.iso_code # NullCode

\* a CO2 row without iso_code survived harmonization and a merge with rows
C10_Witness ==
    /\ AfterMerge
    /\ combined # <<>>
    /\ \E r \in RowsOf(co2) : r.iso_code = NullCode

=============================================================================
